---- MODULE Spec2Model ----
(***************************************************************************)
(* The calculation engine of the calculator: Calculator (app/calculator.py)*)
(* with its history list, its undo and redo stacks of mementos, its        *)
(* observers, its selected operation and its history file, and the         *)
(* operations and the operation factory of app/operations.py.              *)
(***************************************************************************)
EXTENDS Integers, Sequences, FiniteSets, TLC

(***************************************************************************)
(* Bounds of the model.                                                    *)
(***************************************************************************)
\* The number of calculations that may be recorded in one run (timestamps
\* 1..MaxCalculations).
MaxCalculations == 2

\* Raw operand texts given to perform_operation as first and second operand.
FirstInputs == {"2", "abc", "5000"}
SecondInputs == {"3", "0", "0.5", ""}

\* The operations handed to set_operation: one without a precondition and one
\* with a precondition and an execution that can fail.
EngineOps == {"add", "idiv"}

\* The observers that may be registered, each at most once at a time.
ObserverIds == {"LoggingObserver", "AutoSaveObserver"}

(***************************************************************************)
(* Decimal values, as exact fractions n/d with d > 0 in lowest terms.      *)
(***************************************************************************)
Abs(x) == IF x < 0 THEN -x ELSE x

RECURSIVE GCD(_, _)
GCD(x, y) == IF y = 0 THEN x ELSE GCD(y, x % y)

Dec(n, d) ==
    LET s == IF d < 0 THEN -1 ELSE 1
        g == GCD(Abs(n), Abs(d))
    IN  [n |-> (s * n) \div g, d |-> (s * d) \div g]

Zero == Dec(0, 1)

DecAdd(x, y) == Dec(x.n * y.d + y.n * x.d, x.d * y.d)

DecDiv(x, y) == Dec(x.n * y.d, x.d * y.n)

DecSub(x, y) == Dec(x.n * y.d - y.n * x.d, x.d * y.d)

DecMul(x, y) == Dec(x.n * y.n, x.d * y.d)

DecAbs(x) == [n |-> Abs(x.n), d |-> x.d]

DecLeq(x, y) == x.n * y.d <= y.n * x.d

DecLess(x, y) == x.n * y.d < y.n * x.d

IsInt(x) == x.d = 1

\* Python's int(Decimal): truncation towards zero.
IntOf(x) == IF x.n >= 0 THEN x.n \div x.d ELSE -((-x.n) \div x.d)

\* Python's // on ints: the floor of the quotient, y # 0.
FloorDiv(x, y) ==
    LET p == IF y < 0 THEN -x ELSE x
        q == Abs(y)
    IN  p \div q

\* Decimal's %: the remainder has the sign of the dividend, y # 0.
DecMod(x, y) == DecSub(x, DecMul(y, Dec(IntOf(DecDiv(x, y)), 1)))

\* (a variant that multiplies by the exponent)
DecPow_times(x, k) == Dec(x.n * k, x.d)

\* x to the power k, k a natural number; 0 to the power 0 is 1.
RECURSIVE DecPow(_, _)
DecPow(x, k) == IF k = 0 THEN Dec(1, 1) ELSE DecMul(x, DecPow(x, k - 1))

\* The result of a float power whose digits are not followed here: a power
\* with an exponent that is not an integer, of a positive base.
SomeFloat == [n |-> 0, d |-> 0]

(***************************************************************************)
(* Outcomes of a call: the exception it raises ("none" when it returns)    *)
(* with its message, a sequence of texts, the value it returns, and the    *)
(* methods of its own object that it called on the way.                    *)
(***************************************************************************)
Returns(v) == [exc |-> "none", val |-> v, msg |-> <<>>, calls |-> <<>>]
Raises(e, m) == [exc |-> e, val |-> Zero, msg |-> m, calls |-> <<>>]

(***************************************************************************)
(* The operations of app/operations.py.                                    *)
(***************************************************************************)
\* The keys of OperationFactory._Operation, each the name of its class too.
OperationNames ==
    {"add", "sub", "mult", "div", "exp", "root", "mod", "idiv", "perc", "absv"}

\* Operation.validate_operands and its overrides: the message of the
\* ValidationError raised, <<>> when none is raised.
validate_message(op, a, b) ==
    CASE op \in {"div", "mod", "idiv", "perc"} ->
             IF b = Zero THEN <<"Division by zero is not allowed">> ELSE <<>>
      [] op = "exp" ->
             IF DecLess(b, Zero) THEN <<"Negative exponents not supported">>
             ELSE <<>>
      [] op = "root" ->
             IF DecLess(a, Zero)
             THEN <<"Cannot calculate root of negative number">>
             ELSE IF b = Zero THEN <<"Zero root is undefined">> ELSE <<>>
      [] OTHER -> <<>>

\* (a variant that raises another exception than ValidationError)
validate_operands_arithmetic_error(op, a, b) ==
    IF validate_message(op, a, b) # <<>> THEN "ArithmeticError" ELSE "none"

\* Operation.validate_operands and its overrides: the exception raised.
validate_operands(op, a, b) ==
    IF validate_message(op, a, b) # <<>> THEN "ValidationError" ELSE "none"

\* The first statement of the execute methods that validate their operands.
Validated(op, a, b, outcome) ==
    IF validate_operands(op, a, b) # "none"
    THEN [Raises(validate_operands(op, a, b), validate_message(op, a, b))
             EXCEPT !.calls = <<"validate_operands">>]
    ELSE [outcome EXCEPT !.calls = <<"validate_operands">> \o @]

add_execute(a, b) == Validated("add", a, b, Returns(DecAdd(a, b)))

sub_execute(a, b) == Validated("sub", a, b, Returns(DecSub(a, b)))

mult_execute(a, b) == Validated("mult", a, b, Returns(DecMul(a, b)))

div_execute(a, b) == Validated("div", a, b, Returns(DecDiv(a, b)))

\* pow(float(a), float(b)) for b >= 0, and Decimal() of it.
exp_pow(a, b) ==
    IF IsInt(b) THEN Returns(DecPow(a, b.n))
    ELSE IF DecLess(a, Zero)
         THEN Raises("TypeError",
                     <<"conversion from complex to Decimal is not supported">>)
         ELSE IF a = Zero THEN Returns(Zero) ELSE Returns(SomeFloat)

exp_execute(a, b) == Validated("exp", a, b, exp_pow(a, b))

\* pow(float(a), 1 / float(b)) for a >= 0 and b # 0, and Decimal() of it.
root_pow(a, b) ==
    IF a = Zero
    THEN IF DecLess(b, Zero)
         THEN Raises("ZeroDivisionError",
                     <<"0.0 cannot be raised to a negative power">>)
         ELSE Returns(Zero)
    ELSE IF b = Dec(1, 1) THEN Returns(a) ELSE Returns(SomeFloat)

root_execute(a, b) == Validated("root", a, b, root_pow(a, b))

mod_execute(a, b) == Validated("mod", a, b, Returns(DecMod(a, b)))

\* int(a) // int(b)
idiv_floor(a, b) ==
    IF IntOf(b) = 0
    THEN Raises("ZeroDivisionError", <<"integer division or modulo by zero">>)
    ELSE Returns(Dec(FloorDiv(IntOf(a), IntOf(b)), 1))

idiv_execute(a, b) == Validated("idiv", a, b, idiv_floor(a, b))

perc_execute(a, b) ==
    Validated("perc", a, b, Returns(DecMul(DecDiv(a, b), Dec(100, 1))))

\* absv.execute does not call validate_operands.
absv_execute(a, b) == Returns(DecAbs(DecSub(a, b)))

execute(op, a, b) ==
    CASE op = "add" -> add_execute(a, b)
      [] op = "sub" -> sub_execute(a, b)
      [] op = "mult" -> mult_execute(a, b)
      [] op = "div" -> div_execute(a, b)
      [] op = "exp" -> exp_execute(a, b)
      [] op = "root" -> root_execute(a, b)
      [] op = "mod" -> mod_execute(a, b)
      [] op = "idiv" -> idiv_execute(a, b)
      [] op = "perc" -> perc_execute(a, b)
      [] op = "absv" -> absv_execute(a, b)

(***************************************************************************)
(* Collaborators of the engine whose code is not part of the sources:      *)
(* the operand validator, the history entry and the memento.               *)
(***************************************************************************)
\* The configured ceiling of an operand's magnitude.
max_input_value == 1000

\* The decimal a raw text denotes; ok is FALSE when it denotes none.
ParseDecimal(raw) ==
    CASE raw = "2" -> [ok |-> TRUE, val |-> Dec(2, 1)]
      [] raw = "3" -> [ok |-> TRUE, val |-> Dec(3, 1)]
      [] raw = "0" -> [ok |-> TRUE, val |-> Dec(0, 1)]
      [] raw = "0.5" -> [ok |-> TRUE, val |-> Dec(5, 10)]
      [] raw = "5000" -> [ok |-> TRUE, val |-> Dec(5000, 1)]
      [] raw = "-2" -> [ok |-> TRUE, val |-> Dec(-2, 1)]
      [] raw = "0.0" -> [ok |-> TRUE, val |-> Dec(0, 10)]
      [] raw = "0.125" -> [ok |-> TRUE, val |-> Dec(125, 1000)]
      [] OTHER -> [ok |-> FALSE, val |-> Zero]

\* InputValidator.validate_number
validate_number(raw) ==
    IF raw = "" \/ ~ParseDecimal(raw).ok
    THEN Raises("ValidationError", <<"Invalid number format: ", raw>>)
    ELSE IF ~DecLeq(DecAbs(ParseDecimal(raw).val), Dec(max_input_value, 1))
         THEN Raises("ValidationError", <<"Value exceeds maximum allowed">>)
         ELSE Returns(ParseDecimal(raw).val)

\* Calculation(operation, operand1, operand2), created at time ts.
Calculation(operation, operand1, operand2, ts) ==
    [operation |-> operation, operand1 |-> operand1, operand2 |-> operand2,
     result |-> execute(operation, operand1, operand2).val, timestamp |-> ts]

\* CalculatorMemento(history): a snapshot holding the list it is given.
CalculatorMemento(h) == [history |-> h]

(***************************************************************************)
(* The history file: a table with the columns operation, operand1,         *)
(* operand2, result and timestamp, whose cells are texts.                  *)
(***************************************************************************)
\* The most digits after the decimal point of a number written to the file.
MaxScale == 3

\* str(Decimal): the digits of x and the number of them after the point.
\* x is a decimal fraction with at most MaxScale such digits.
DecimalText(x) ==
    LET s == CHOOSE k \in 0..MaxScale :
                 /\ (10 ^ k) % x.d = 0
                 /\ \A j \in 0..(k - 1) : (10 ^ j) % x.d # 0
    IN  [coefficient |-> (x.n * (10 ^ s)) \div x.d, scale |-> s]

\* A cell that holds no number.
Garbled == [coefficient |-> 0, scale |-> -1]

\* The number a cell denotes.
TextValue(text) == Dec(text.coefficient, 10 ^ text.scale)

\* The significant digits a float holds.  A float64 holds 17; the numbers of
\* the model are shorter and so is its float.
FloatDigits == 2

\* The number of decimal digits of the natural number c.
RECURSIVE Digits(_)
Digits(c) == IF c < 10 THEN 1 ELSE 1 + Digits(c \div 10)

\* c rounded to its FloatDigits leading digits.
Rounded(c) ==
    LET unit == 10 ^ (Digits(Abs(c)) - FloatDigits)
    IN  IF Digits(Abs(c)) <= FloatDigits
        THEN c
        ELSE IF c >= 0
             THEN ((c + unit \div 2) \div unit) * unit
             ELSE -(((-c + unit \div 2) \div unit) * unit)

\* The number pandas.read_csv makes of a cell: a text without a fraction is
\* read as an integer, a text with a fraction as the nearest float.
\* Calculation.from_dict gets that number, not the text.
ParseCell(text) ==
    IF text.scale < 0
    THEN [ok |-> FALSE, val |-> Zero]
    ELSE IF text.scale = 0
         THEN [ok |-> TRUE, val |-> TextValue(text)]
         ELSE [ok |-> TRUE,
               val |-> Dec(Rounded(text.coefficient), 10 ^ text.scale)]

\* datetime.isoformat and datetime.fromisoformat
IsoFormat(ts) == [iso |-> ts]
FromIso(text) == text.iso

\* The row save_history writes for a calculation.
Row(calc) ==
    [operation |-> calc.operation,
     operand1 |-> DecimalText(calc.operand1),
     operand2 |-> DecimalText(calc.operand2),
     result |-> DecimalText(calc.result),
     timestamp |-> IsoFormat(calc.timestamp)]

\* (a variant that writes the rows newest first)
Rows_newest_first(h) == [i \in 1..Len(h) |-> Row(h[Len(h) + 1 - i])]

\* history_data of save_history: one row for each calculation, in order.
Rows(h) == [i \in 1..Len(h) |-> Row(h[i])]

\* Calculation.from_dict: the calculation a row stands for; ok is FALSE when
\* a cell of the row cannot be converted.
from_dict(row) ==
    [ok |-> /\ ParseCell(row.operand1).ok
            /\ ParseCell(row.operand2).ok
            /\ ParseCell(row.result).ok,
     calc |-> [operation |-> row.operation,
               operand1 |-> ParseCell(row.operand1).val,
               operand2 |-> ParseCell(row.operand2).val,
               result |-> ParseCell(row.result).val,
               timestamp |-> FromIso(row.timestamp)]]

\* The history file: missing, not readable as a table, or a table of rows
\* under the header.
MissingFile == [kind |-> "missing", rows |-> <<>>]
UnreadableFile == [kind |-> "unreadable", rows |-> <<>>]
Table(rows) == [kind |-> "table", rows |-> rows]

(***************************************************************************)
(* The state of one Calculator.                                            *)
(***************************************************************************)
VARIABLES
    history,             \* self.history: the list of calculations
    operation_strategy,  \* self.operation_strategy, NoAttribute until it is set
    observers,           \* self.observers, in registration order
    undo_stack,          \* self.undo_stack: mementos, the top is the last
    redo_stack,          \* self.redo_stack: mementos, the top is the last
    now,                 \* the timestamp the next calculation gets
    last,                \* the last call: its name, arguments, outcome, the
                         \* update calls it made and the state it started in
    roundTrip,           \* an undo and the redo right after it, with the
                         \* history the undo started from
    run,                 \* the calculations of the current run of performs
                         \* and the history the run started from
    registry,            \* OperationFactory._Operation: name -> class
    history_file,        \* the file at config.history_file
    operands,            \* the operands of an operation that is called
                         \* without a Calculator, <<>> otherwise
    heap,                \* the list objects of a Calculator and the
                         \* references that it and its mementos hold to them
    repl                 \* Calculator_repl: where its loop stands, the
                         \* command and operands it has read, what it printed

vars == <<history, operation_strategy, observers, undo_stack, redo_stack,
          now, last, roundTrip, run, registry, history_file, operands, heap,
          repl>>

\* What the methods of Calculator other than save_history and load_history
\* never touch.
environment == <<registry, history_file, operands, heap, repl>>


\* The heap while no list object is followed.
NoHeap ==
    [lists |-> <<>>, history |-> 0, undo_stack |-> <<>>, redo_stack |-> <<>>,
     call |-> "none"]

\* __init__ sets self.operation_stratetgy (sic) and set_operation sets
\* self.operation_strategy: until set_operation is called the attribute that
\* perform_operation reads does not exist.
NoAttribute == "<no attribute>"
None == "None"
True == "True"
False == "False"
Number == "number"

\* The loop of Calculator_repl while no Calculator_repl runs.
NoRepl == [pc |-> "off", prompt |-> "none", command |-> "", a |-> "",
           b |-> "", selected |-> NoAttribute, output |-> <<>>]

\* The entry that load_history, called by __init__, finds in a history file
\* written by an earlier session.
StoredCalculation == Calculation("add", Dec(2, 1), Dec(3, 1), 0)

\* The history file an earlier session left: none, or one with that entry.
StoredFiles == {MissingFile, Table(Rows(<<StoredCalculation>>))}

\* (a variant that keeps the rows converted before the one that fails)
load_outcome_keeps_converted(file, h) ==
    IF file.kind = "missing" \/ (file.kind = "table" /\ file.rows = <<>>)
    THEN [exc |-> "none", msg |-> <<>>, history |-> h]
    ELSE IF file.kind = "unreadable"
         THEN [exc |-> "OperationError",
               msg |-> <<"Failed to load history: ", file.kind>>,
               history |-> h]
    ELSE IF \A i \in 1..Len(file.rows) : from_dict(file.rows[i]).ok
         THEN [exc |-> "none", msg |-> <<>>,
               history |-> [i \in 1..Len(file.rows) |->
                               from_dict(file.rows[i]).calc]]
         ELSE LET bad == CHOOSE i \in 1..Len(file.rows) :
                             /\ ~from_dict(file.rows[i]).ok
                             /\ \A j \in 1..(i - 1) : from_dict(file.rows[j]).ok
              IN  [exc |-> "OperationError",
                   msg |-> <<"Failed to load history: ", "invalid row">>,
                   history |-> [i \in 1..(bad - 1) |->
                                   from_dict(file.rows[i]).calc]]

\* What load_history makes of the file when the history is h: the exception
\* it raises and the history it leaves.  A file that is missing, or a table
\* without rows, is logged and nothing else; the list of the calculations of
\* the rows is assigned once every row has been converted.
load_outcome(file, h) ==
    IF file.kind = "missing" \/ (file.kind = "table" /\ file.rows = <<>>)
    THEN [exc |-> "none", msg |-> <<>>, history |-> h]
    ELSE IF file.kind = "unreadable"
         THEN [exc |-> "OperationError",
               msg |-> <<"Failed to load history: ", file.kind>>,
               history |-> h]
    ELSE IF \A i \in 1..Len(file.rows) : from_dict(file.rows[i]).ok
         THEN [exc |-> "none", msg |-> <<>>,
               history |-> [i \in 1..Len(file.rows) |->
                               from_dict(file.rows[i]).calc]]
         ELSE [exc |-> "OperationError",
               msg |-> <<"Failed to load history: ", "invalid row">>,
               history |-> h]

\* The history __init__ ends with: it calls load_history on the empty list
\* and goes on when load_history raises.
ConstructedHistory(file) == load_outcome(file, <<>>).history

\* The histories __init__ may end with: empty (no file, an empty or an
\* unreadable file) or the stored rows.
LoadedAtConstruction == {ConstructedHistory(file) : file \in StoredFiles}

\* The classes OperationFactory._Operation starts with.
BuiltinOperations == [name \in OperationNames |-> name]

Snapshot ==
    [history |-> history, undo_stack |-> undo_stack, redo_stack |-> redo_stack,
     operation_strategy |-> operation_strategy, registry |-> registry]

\* No exception under the one a call raised.
NoCause == [exc |-> "none", msg |-> <<>>]

\* ret is what the call returned: None, True, False or a number, which val
\* holds (val is Zero otherwise).  msg is the message of the exception raised,
\* calls the methods that an execute called on its operation,
\* cause the exception it was made from, args the raw operands of a
\* perform_operation.
Call(name, exc, ret, val, updates) ==
    [call |-> name, exc |-> exc, ret |-> ret, val |-> val, updates |-> updates,
     msg |-> <<>>, cause |-> NoCause, args |-> <<>>, calls |-> <<>>,
     pre |-> Snapshot]

NoRoundTrip == [stage |-> "none", history |-> <<>>]
NoRun == [stage |-> "closed", base |-> <<>>, entries |-> <<>>]

\* Calculator.__init__
Init ==
    /\ registry = BuiltinOperations
    /\ history_file \in StoredFiles
    /\ history = ConstructedHistory(history_file)
    /\ operands = <<>>
    /\ heap = NoHeap
    /\ repl = NoRepl
    /\ operation_strategy = NoAttribute
    /\ observers = <<>>
    /\ undo_stack = <<>>
    /\ redo_stack = <<>>
    /\ now = 1
    /\ last = [call |-> "__init__", exc |-> "none", ret |-> None, val |-> Zero,
               updates |-> <<>>, msg |-> <<>>, cause |-> NoCause,
               args |-> <<>>, calls |-> <<>>,
               pre |-> [history |-> <<>>, undo_stack |-> <<>>,
                        redo_stack |-> <<>>,
                        operation_strategy |-> NoAttribute,
                        registry |-> BuiltinOperations]]
    /\ roundTrip = NoRoundTrip
    /\ run = NoRun

\* A run of performs goes on through the calls that record no calculation
\* and restore none; after its undo only the redo right after it belongs to it.
RunContinued == IF run.stage = "open" THEN run ELSE NoRun

Range(s) == {s[i] : i \in 1..Len(s)}

\* Calculator.add_observer
add_observer(observer) ==
    /\ observer \notin Range(observers)
    /\ observers' = Append(observers, observer)
    /\ last' = Call("add_observer", "none", None, Zero, <<>>)
    /\ roundTrip' = NoRoundTrip
    /\ run' = RunContinued
    /\ UNCHANGED <<history, operation_strategy, undo_stack, redo_stack, now>>
    /\ UNCHANGED environment

\* list.remove: the list without the first occurrence of x.
Remove(s, x) ==
    LET i == CHOOSE k \in 1..Len(s) :
                 s[k] = x /\ \A j \in 1..(k - 1) : s[j] # x
    IN  SubSeq(s, 1, i - 1) \o SubSeq(s, i + 1, Len(s))

\* Calculator.remove_observer
remove_observer(observer) ==
    /\ IF observer \in Range(observers)
       THEN /\ observers' = Remove(observers, observer)
            /\ last' = Call("remove_observer", "none", None, Zero, <<>>)
       ELSE /\ observers' = observers
            /\ last' = Call("remove_observer", "ValueError", None, Zero,
                            <<>>)
    /\ roundTrip' = NoRoundTrip
    /\ run' = RunContinued
    /\ UNCHANGED <<history, operation_strategy, undo_stack, redo_stack, now>>
    /\ UNCHANGED environment

\* The update calls of Calculator.notify_observers(calculation), in order.
Updates(calculation) ==
    [i \in 1..Len(observers) |->
        [observer |-> observers[i], calculation |-> calculation]]

\* Calculator.notify_observers, called with an entry of the history.
notify_observers(calculation) ==
    /\ last' = Call("notify_observers", "none", None, Zero,
                    Updates(calculation))
    /\ roundTrip' = NoRoundTrip
    /\ run' = RunContinued
    /\ UNCHANGED <<history, operation_strategy, observers, undo_stack,
                   redo_stack, now>>
    /\ UNCHANGED environment

\* Calculator.set_operation
set_operation(operation) ==
    /\ operation_strategy' = operation
    /\ last' = Call("set_operation", "none", None, Zero, <<>>)
    /\ roundTrip' = NoRoundTrip
    /\ run' = RunContinued
    /\ UNCHANGED <<history, observers, undo_stack, redo_stack, now>>
    /\ UNCHANGED environment

\* (a variant that makes an OperationError of every exception)
Reraised_wrapping_all(raised) ==
    Raises("OperationError", <<"Operation failed: ">> \o raised.msg)

\* The except clauses of perform_operation: a ValidationError is raised
\* again as it is, any other exception as an OperationError with the text of
\* the exception in its message.
Reraised(raised) ==
    IF raised.exc = "ValidationError"
    THEN raised
    ELSE Raises("OperationError", <<"Operation failed: ">> \o raised.msg)

\* What the body of the try statement of perform_operation(a, b) raises or
\* returns.
perform_body(a, b) ==
    IF validate_number(a).exc # "none" THEN validate_number(a)
    ELSE IF validate_number(b).exc # "none" THEN validate_number(b)
    ELSE execute(operation_strategy, validate_number(a).val,
                 validate_number(b).val)

\* What perform_operation(a, b) raises or returns.
perform_outcome(a, b) ==
    IF operation_strategy = NoAttribute
    THEN Raises("AttributeError",
                <<"'Calculator' object has no attribute 'operation_strategy'">>)
    ELSE IF operation_strategy = None
         THEN Raises("OperationError", <<"No Operation Set">>)
    ELSE IF perform_body(a, b).exc # "none"
         THEN Reraised(perform_body(a, b))
         ELSE perform_body(a, b)

\* The exception that the except clauses of perform_operation(a, b) caught.
perform_cause(a, b) ==
    IF operation_strategy \in {NoAttribute, None}
       \/ perform_body(a, b).exc = "none"
    THEN NoCause
    ELSE [exc |-> perform_body(a, b).exc, msg |-> perform_body(a, b).msg]

\* (a variant that forgets the memento)
PushUndo_skipped(stack, h) == stack

\* The undo stack after a calculation was made on history h.
PushUndo(stack, h) == Append(stack, CalculatorMemento(h))

\* (a variant that keeps the redo stack)
ClearedRedo_kept(stack) == stack

\* The redo stack after a calculation: redo_stack.clear().
ClearedRedo(stack) == <<>>

\* (a variant that inserts the calculation in front)
Appended_in_front(h, calculation) == <<calculation>> \o h

\* The history after a calculation: history.append(calculation).
Appended(h, calculation) == Append(h, calculation)

\* The calculations of the run of performs that calculation extends or starts.
RunAfterPerform(calculation) ==
    IF run.stage = "open"
    THEN [run EXCEPT !.entries = Append(@, calculation)]
    ELSE [stage |-> "open", base |-> history, entries |-> <<calculation>>]

\* (a variant that pushes the memento and clears the redo stack before it
\* validates the operands)
perform_operation_pushing_first(a, b) ==
    LET outcome == perform_outcome(a, b)
        calculation == Calculation(operation_strategy, validate_number(a).val,
                                   validate_number(b).val, now)
    IN  /\ last' = [Call("perform_operation", outcome.exc,
                         IF outcome.exc = "none" THEN Number ELSE None,
                         outcome.val, <<>>)
                        EXCEPT !.msg = outcome.msg,
                               !.cause = perform_cause(a, b),
                               !.args = <<a, b>>]
        /\ roundTrip' = NoRoundTrip
        /\ undo_stack' = PushUndo(undo_stack, history)
        /\ redo_stack' = ClearedRedo(redo_stack)
        /\ IF outcome.exc = "none"
           THEN /\ history' = Appended(history, calculation)
                /\ now' = now + 1
                /\ run' = RunAfterPerform(calculation)
           ELSE /\ run' = RunContinued
                /\ UNCHANGED <<history, now>>
        /\ UNCHANGED <<operation_strategy, observers>>
        /\ UNCHANGED environment

\* Calculator.perform_operation
perform_operation(a, b) ==
    LET outcome == perform_outcome(a, b)
        calculation == Calculation(operation_strategy, validate_number(a).val,
                                   validate_number(b).val, now)
    IN  /\ last' = [Call("perform_operation", outcome.exc,
                         IF outcome.exc = "none" THEN Number ELSE None,
                         outcome.val, <<>>)
                        EXCEPT !.msg = outcome.msg,
                               !.cause = perform_cause(a, b),
                               !.args = <<a, b>>]
        /\ roundTrip' = NoRoundTrip
        /\ IF outcome.exc = "none"
           THEN /\ undo_stack' = PushUndo(undo_stack, history)
                /\ redo_stack' = ClearedRedo(redo_stack)
                /\ history' = Appended(history, calculation)
                /\ now' = now + 1
                /\ run' = RunAfterPerform(calculation)
           ELSE /\ run' = RunContinued
                /\ UNCHANGED <<history, undo_stack, redo_stack, now>>
        /\ UNCHANGED <<operation_strategy, observers>>
        /\ UNCHANGED environment

\* (a variant that forgets the redo stack)
clear_history_keeps_redo ==
    /\ history' = <<>>
    /\ undo_stack' = <<>>
    /\ redo_stack' = redo_stack
    /\ last' = Call("clear_history", "none", None, Zero, <<>>)
    /\ roundTrip' = NoRoundTrip
    /\ run' = NoRun
    /\ UNCHANGED <<operation_strategy, observers, now>>
    /\ UNCHANGED environment

\* Calculator.clear_history
clear_history ==
    /\ history' = <<>>
    /\ undo_stack' = <<>>
    /\ redo_stack' = <<>>
    /\ last' = Call("clear_history", "none", None, Zero, <<>>)
    /\ roundTrip' = NoRoundTrip
    /\ run' = NoRun
    /\ UNCHANGED <<operation_strategy, observers, now>>
    /\ UNCHANGED environment

\* (variants that take the oldest memento, and that leave it on the stack)
Top_oldest(stack) == stack[1]
Popped_none(stack) == stack

\* The top of a stack and the stack without it: list.pop().
Top(stack) == stack[Len(stack)]
Popped(stack) == SubSeq(stack, 1, Len(stack) - 1)

\* (a variant that restores an empty history)
Restored_empty(memento) == <<>>

\* The history that undo and redo restore from a memento.
Restored(memento) == memento.history

\* (a variant without the check for an empty stack: pop() raises)
undo_unguarded ==
    /\ IF undo_stack = <<>>
       THEN /\ last' = Call("undo", "IndexError", None, Zero, <<>>)
            /\ roundTrip' = NoRoundTrip
            /\ run' = NoRun
            /\ UNCHANGED <<history, undo_stack, redo_stack>>
       ELSE /\ undo_stack' = Popped(undo_stack)
            /\ redo_stack' = Append(redo_stack, CalculatorMemento(history))
            /\ history' = Restored(Top(undo_stack))
            /\ last' = Call("undo", "none", True, Zero, <<>>)
            /\ roundTrip' = [stage |-> "undone", history |-> history]
            /\ run' = IF run.stage = "open"
                      THEN [run EXCEPT !.stage = "undone"]
                      ELSE NoRun
    /\ UNCHANGED <<operation_strategy, observers, now>>
    /\ UNCHANGED environment

\* Calculator.undo
undo ==
    /\ IF undo_stack = <<>>
       THEN /\ last' = Call("undo", "none", False, Zero, <<>>)
            /\ roundTrip' = NoRoundTrip
            /\ run' = NoRun
            /\ UNCHANGED <<history, undo_stack, redo_stack>>
       ELSE /\ undo_stack' = Popped(undo_stack)
            /\ redo_stack' = Append(redo_stack, CalculatorMemento(history))
            /\ history' = Restored(Top(undo_stack))
            /\ last' = Call("undo", "none", True, Zero, <<>>)
            /\ roundTrip' = [stage |-> "undone", history |-> history]
            /\ run' = IF run.stage = "open"
                      THEN [run EXCEPT !.stage = "undone"]
                      ELSE NoRun
    /\ UNCHANGED <<operation_strategy, observers, now>>
    /\ UNCHANGED environment

\* What a redo makes of an undo that came right before it, and of a run of
\* performs that ended with that undo.
RoundTripAfterRedo(done) ==
    IF roundTrip.stage = "undone"
    THEN [roundTrip EXCEPT !.stage = IF done THEN "redone" ELSE "not redone"]
    ELSE NoRoundTrip

RunAfterRedo(done) ==
    IF run.stage = "undone"
    THEN [run EXCEPT !.stage = IF done THEN "redone" ELSE "not redone"]
    ELSE NoRun

\* (a variant that forgets to push the current history on the undo stack)
redo_without_undo_push ==
    /\ IF redo_stack = <<>>
       THEN /\ last' = Call("redo", "none", False, Zero, <<>>)
            /\ roundTrip' = RoundTripAfterRedo(FALSE)
            /\ run' = RunAfterRedo(FALSE)
            /\ UNCHANGED <<history, undo_stack, redo_stack>>
       ELSE /\ redo_stack' = Popped(redo_stack)
            /\ undo_stack' = undo_stack
            /\ history' = Restored(Top(redo_stack))
            /\ last' = Call("redo", "none", True, Zero, <<>>)
            /\ roundTrip' = RoundTripAfterRedo(TRUE)
            /\ run' = RunAfterRedo(TRUE)
    /\ UNCHANGED <<operation_strategy, observers, now>>
    /\ UNCHANGED environment

\* Calculator.redo
redo ==
    /\ IF redo_stack = <<>>
       THEN /\ last' = Call("redo", "none", False, Zero, <<>>)
            /\ roundTrip' = RoundTripAfterRedo(FALSE)
            /\ run' = RunAfterRedo(FALSE)
            /\ UNCHANGED <<history, undo_stack, redo_stack>>
       ELSE /\ redo_stack' = Popped(redo_stack)
            /\ undo_stack' = Append(undo_stack, CalculatorMemento(history))
            /\ history' = Restored(Top(redo_stack))
            /\ last' = Call("redo", "none", True, Zero, <<>>)
            /\ roundTrip' = RoundTripAfterRedo(TRUE)
            /\ run' = RunAfterRedo(TRUE)
    /\ UNCHANGED <<operation_strategy, observers, now>>
    /\ UNCHANGED environment

Next ==
    \/ \E observer \in ObserverIds : add_observer(observer)
    \/ \E observer \in ObserverIds : remove_observer(observer)
    \/ \E i \in 1..Len(history) : notify_observers(history[i])
    \/ \E operation \in EngineOps \cup {None} : set_operation(operation)
    \/ /\ now <= MaxCalculations
       /\ \E a \in FirstInputs, b \in SecondInputs : perform_operation(a, b)
    \/ clear_history
    \/ undo
    \/ redo

Spec == Init /\ [][Next]_vars

(***************************************************************************)
(* Properties of the engine.  A call is recognised by last.call, the state *)
(* it started in is last.pre.                                              *)
(***************************************************************************)
Performed == last.call = "perform_operation" /\ last.exc = "none"

\* C1: a successful perform_operation, which needs an operation to be
\* selected, pushes on the undo stack exactly one memento, equal to the
\* history before the call, empties the redo stack and appends exactly one new
\* entry at the end of the history; on a fresh empty engine with add selected,
\* perform_operation("2", "3") returns 5 and leaves a history of length 1, an
\* undo stack of length 1 and an empty redo stack.
C1_PerformRecordsCalculation ==
    Performed =>
        /\ last.pre.operation_strategy \in EngineOps
        /\ undo_stack = last.pre.undo_stack \o <<[history |-> last.pre.history]>>
        /\ redo_stack = <<>>
        /\ Len(history) = Len(last.pre.history) + 1
        /\ SubSeq(history, 1, Len(history) - 1) = last.pre.history
        /\ history[Len(history)].operation = last.pre.operation_strategy
        /\ last.ret = Number
        /\ history[Len(history)].result = last.val
        /\ \A i \in 1..Len(last.pre.history) :
               last.pre.history[i] # history[Len(history)]
        /\ ( /\ last.pre.history = <<>>
             /\ last.pre.undo_stack = <<>>
             /\ last.pre.operation_strategy = "add"
             /\ history[Len(history)].operand1 = [n |-> 2, d |-> 1]
             /\ history[Len(history)].operand2 = [n |-> 3, d |-> 1] )
           => /\ last.val = [n |-> 5, d |-> 1]
              /\ Len(history) = 1
              /\ Len(undo_stack) = 1
              /\ redo_stack = <<>>

\* The scenario of C1: add(2, 3) = 5 performed on a fresh empty engine.
C1_Witness ==
    /\ Performed
    /\ last.pre.history = <<>>
    /\ last.pre.undo_stack = <<>>
    /\ last.pre.operation_strategy = "add"
    /\ history[1].operand1 = [n |-> 2, d |-> 1]
    /\ history[1].operand2 = [n |-> 3, d |-> 1]
    /\ last.val = [n |-> 5, d |-> 1]

\* C2 (as claimed): every successful perform_operation calls update(entry) on
\* every registered observer exactly once, in registration order, with the
\* entry it appended to the history, before it returns.
C2_PerformNotifiesObservers ==
    Performed =>
        last.updates = [i \in 1..Len(observers) |->
                           [observer |-> observers[i],
                            calculation |-> history[Len(history)]]]

\* C3 (as claimed): perform_operation on an engine on which set_operation was
\* never called fails with an OperationError and changes neither the history
\* nor either stack.
C3_IdlePerformRaisesOperationError ==
    (last.call = "perform_operation" /\ last.pre.operation_strategy = NoAttribute)
        => /\ last.exc = "OperationError"
           /\ history = last.pre.history
           /\ undo_stack = last.pre.undo_stack
           /\ redo_stack = last.pre.redo_stack

\* C4 (as claimed): after perform_operation is called the redo stack is empty,
\* whatever it held before.
C4_AnyPerformClearsRedo ==
    last.call = "perform_operation" => redo_stack = <<>>

\* C4 (amended): after a successful perform_operation the redo stack is empty,
\* whatever it held before; a perform_operation that raises leaves the redo
\* stack as it was.
C4_SuccessfulPerformClearsRedo ==
    last.call = "perform_operation" =>
        IF last.exc = "none"
        THEN redo_stack = <<>>
        ELSE redo_stack = last.pre.redo_stack

\* A calculation made while the redo stack held a memento.
C4_Witness == Performed /\ last.pre.redo_stack # <<>>

\* C5: undo with a non-empty undo stack (as it is right after any successful
\* calculation) returns True, removes exactly the top undo memento, pushes on
\* the redo stack exactly one memento equal to the history before the undo,
\* and sets the history to the contents of the removed memento.
C5_UndoRestoresTopMemento ==
    /\ Performed => undo_stack # <<>>
    /\ (last.call = "undo" /\ last.pre.undo_stack # <<>>) =>
        /\ last.exc = "none"
        /\ last.ret = True
        /\ undo_stack = SubSeq(last.pre.undo_stack, 1,
                               Len(last.pre.undo_stack) - 1)
        /\ redo_stack = last.pre.redo_stack \o <<[history |-> last.pre.history]>>
        /\ history = last.pre.undo_stack[Len(last.pre.undo_stack)].history

\* An undo that took the top of two mementos.
C5_Witness ==
    /\ last.call = "undo"
    /\ last.ret = True
    /\ Len(last.pre.undo_stack) = 2
    /\ last.pre.undo_stack[1] # last.pre.undo_stack[2]

\* C6: redo with an empty redo stack returns False and changes nothing;
\* with a non-empty one (as it is right after any successful undo) it returns
\* True, removes the top redo memento, pushes a memento of the history before
\* the redo on the undo stack and sets the history to the contents of the
\* removed memento.
C6_RedoMirrorsUndo ==
    /\ (last.call = "undo" /\ last.ret = True) => redo_stack # <<>>
    /\ (last.call = "redo" /\ last.pre.redo_stack = <<>>) =>
        /\ last.exc = "none"
        /\ last.ret = False
        /\ history = last.pre.history
        /\ undo_stack = last.pre.undo_stack
        /\ redo_stack = <<>>
    /\ (last.call = "redo" /\ last.pre.redo_stack # <<>>) =>
        /\ last.exc = "none"
        /\ last.ret = True
        /\ redo_stack = SubSeq(last.pre.redo_stack, 1,
                               Len(last.pre.redo_stack) - 1)
        /\ undo_stack = last.pre.undo_stack \o <<[history |-> last.pre.history]>>
        /\ history = last.pre.redo_stack[Len(last.pre.redo_stack)].history

\* A redo that took the top of two mementos.
C6_Witness ==
    /\ last.call = "redo"
    /\ last.ret = True
    /\ Len(last.pre.redo_stack) = 2
    /\ last.pre.redo_stack[1] # last.pre.redo_stack[2]

\* C7: every undo called while the undo stack is empty returns False, raises
\* nothing and leaves the history, the undo stack and the redo stack as they
\* were (so the stack is still empty for the next undo).
C7_UndoOnEmptyStackIsNoOp ==
    (last.call = "undo" /\ last.pre.undo_stack = <<>>) =>
        /\ last.exc = "none"
        /\ last.ret = False
        /\ history = last.pre.history
        /\ undo_stack = <<>>
        /\ redo_stack = last.pre.redo_stack

\* An undo on an empty undo stack of an engine whose history is not empty.
C7_Witness ==
    /\ last.call = "undo"
    /\ last.pre.undo_stack = <<>>
    /\ last.pre.history # <<>>

\* C8: whatever calls came before, a redo right after a successful undo
\* succeeds and leaves the history equal to what it was before the undo (the
\* same entries in the same order).
C8_UndoRedoRoundTrip ==
    /\ roundTrip.stage # "not redone"
    /\ roundTrip.stage = "redone" =>
        /\ last.call = "redo"
        /\ last.ret = True
        /\ history = roundTrip.history

\* An undo and a redo that went back to one calculation and forward to two.
C8_Witness ==
    /\ roundTrip.stage = "redone"
    /\ Len(history) >= 2
    /\ Len(last.pre.history) = Len(history) - 1
    /\ Len(last.pre.redo_stack) = 2

\* C9: after n >= 1 consecutive successful performs, undo leaves the history
\* holding the history the performs started from followed by the first n - 1
\* of their entries, in order, and a redo right after it restores all n in
\* order.
C9_UndoDropsLastOfRun ==
    /\ run.stage # "not redone"
    /\ run.stage = "open" =>
        /\ Len(run.entries) >= 1
        /\ history = run.base \o run.entries
    /\ run.stage = "undone" =>
        /\ last.call = "undo"
        /\ last.ret = True
        /\ history = run.base \o SubSeq(run.entries, 1, Len(run.entries) - 1)
    /\ run.stage = "redone" =>
        /\ last.call = "redo"
        /\ last.ret = True
        /\ history = run.base \o run.entries

\* Two calculations after a loaded one, the undo of the second and its redo.
C9_Witness ==
    /\ run.stage = "redone"
    /\ Len(run.entries) = 2
    /\ run.base # <<>>

\* C10: clear_history leaves the history, the undo stack and the redo stack
\* empty whatever they held, and an undo or a redo right after it returns
\* False.
C10_ClearEmptiesEverything ==
    [][ /\ last'.call = "clear_history" =>
            /\ last'.exc = "none"
            /\ history' = <<>>
            /\ undo_stack' = <<>>
            /\ redo_stack' = <<>>
        /\ (last.call = "clear_history" /\ last'.call \in {"undo", "redo"}) =>
            /\ last'.exc = "none"
            /\ last'.ret = False ]_vars

\* A clear_history of a history and of stacks that all held something.
C10_Witness ==
    /\ last.call = "clear_history"
    /\ last.pre.history # <<>>
    /\ last.pre.undo_stack # <<>>
    /\ last.pre.redo_stack # <<>>
    /\ history = <<>>

(***************************************************************************)
(* The engine with the operations that divide by their second operand.     *)
(***************************************************************************)
DivisorOps == {"div", "mod", "idiv", "perc"}

\* Raw operands: a positive, a negative, a zero and a fractional dividend;
\* two spellings of zero and two other divisors.
DividendInputs == {"2", "-2", "0", "0.5"}
DivisorInputs == {"0", "0.0", "3", "0.5"}

\* The number of calculations that may be recorded with them.
MaxDivisions == 1

DivisorNext ==
    \/ \E operation \in DivisorOps : set_operation(operation)
    \/ /\ now <= MaxDivisions
       /\ \E a \in DividendInputs, b \in DivisorInputs :
              perform_operation(a, b)
    \/ undo
    \/ redo

DivisorSpec == Init /\ [][DivisorNext]_vars

\* A perform_operation with one of these operations selected whose second
\* operand is a number equal to zero.
PerformedWithZeroDivisor ==
    /\ last.call = "perform_operation"
    /\ last.pre.operation_strategy \in DivisorOps
    /\ ParseDecimal(last.args[2]).ok
    /\ ParseDecimal(last.args[2]).val = Zero

\* C11: with div, mod, idiv or perc selected, perform_operation(a, b) with b
\* equal to zero raises ValidationError whatever a is, and appends nothing to
\* the history.
C11_ZeroDivisorIsValidationError ==
    PerformedWithZeroDivisor =>
        /\ last.exc = "ValidationError"
        /\ history = last.pre.history

\* perc selected, a history of one entry, and the divisor written "0.0".
C11_Witness ==
    /\ PerformedWithZeroDivisor
    /\ last.pre.operation_strategy = "perc"
    /\ last.args = <<"-2", "0.0">>
    /\ last.exc = "ValidationError"
    /\ last.msg = <<"Division by zero is not allowed">>
    /\ Len(history) = 1

\* A perform_operation in the ready state in which the try statement caught
\* an exception.
PerformedAndCaught ==
    /\ last.call = "perform_operation"
    /\ last.pre.operation_strategy \notin {NoAttribute, None}
    /\ last.cause.exc # "none"

\* s ends with t.
EndsWith(s, t) ==
    /\ Len(t) <= Len(s)
    /\ SubSeq(s, Len(s) - Len(t) + 1, Len(s)) = t

\* C12: in the ready state, a ValidationError raised by the validation of an
\* operand or by the operation leaves perform_operation as a ValidationError
\* with its message, never as another exception; every other exception raised
\* during perform_operation leaves it as an OperationError whose message
\* carries the message of the original exception; and perform_operation
\* raises nothing else.
C12_ValidationErrorKeptOthersWrapped ==
    /\ PerformedAndCaught =>
           IF last.cause.exc = "ValidationError"
           THEN last.exc = "ValidationError" /\ last.msg = last.cause.msg
           ELSE /\ last.exc = "OperationError"
                /\ last.cause.msg # <<>>
                /\ EndsWith(last.msg, last.cause.msg)
    /\ ( /\ last.call = "perform_operation"
         /\ last.pre.operation_strategy \notin {NoAttribute, None}
         /\ last.exc # "none" ) => last.cause.exc # "none"

\* idiv selected and perform_operation("2", "0.5"): int(b) is 0 and the
\* ZeroDivisionError of // becomes an OperationError.
C12_Witness ==
    /\ PerformedAndCaught
    /\ last.pre.operation_strategy = "idiv"
    /\ last.args = <<"2", "0.5">>
    /\ last.cause.exc = "ZeroDivisionError"
    /\ last.exc = "OperationError"
    /\ last.msg = <<"Operation failed: ", "integer division or modulo by zero">>

(***************************************************************************)
(* The operations on their own: an instance of one of the ten classes and  *)
(* a pair of Decimal operands, on which validate_operands and execute are  *)
(* called.  operation_strategy holds the class of the instance.            *)
(***************************************************************************)
\* Operands: negative, zero and positive, integers and fractions that a
\* float holds exactly.
OperandValues ==
    {Dec(-2, 1), Dec(-1, 1), Dec(-1, 2), Dec(0, 1), Dec(1, 2), Dec(1, 1),
     Dec(2, 1), Dec(3, 1)}

OperationInit ==
    /\ operation_strategy \in OperationNames
    /\ operands \in OperandValues \X OperandValues
    /\ heap = NoHeap
    /\ repl = NoRepl
    /\ registry = BuiltinOperations
    /\ history_file = MissingFile
    /\ history = <<>>
    /\ observers = <<>>
    /\ undo_stack = <<>>
    /\ redo_stack = <<>>
    /\ now = 1
    /\ last = Call("__init__", "none", None, Zero, <<>>)
    /\ roundTrip = NoRoundTrip
    /\ run = NoRun

\* operation.validate_operands(a, b)
call_validate_operands ==
    /\ last' = [Call("validate_operands",
                     validate_operands(operation_strategy, operands[1],
                                       operands[2]),
                     None, Zero, <<>>)
                EXCEPT !.msg = validate_message(operation_strategy,
                                                operands[1], operands[2])]
    /\ UNCHANGED <<history, operation_strategy, observers, undo_stack,
                   redo_stack, now, roundTrip, run, environment>>

\* operation.execute(a, b)
call_execute ==
    LET outcome == execute(operation_strategy, operands[1], operands[2])
    IN  /\ last' = [Call("execute", outcome.exc,
                         IF outcome.exc = "none" THEN Number ELSE None,
                         outcome.val, <<>>)
                    EXCEPT !.msg = outcome.msg, !.calls = outcome.calls]
        /\ UNCHANGED <<history, operation_strategy, observers, undo_stack,
                       redo_stack, now, roundTrip, run, environment>>

OperationNext == call_validate_operands \/ call_execute

OperationSpec == OperationInit /\ [][OperationNext]_vars

\* C13 (as claimed): for each of the ten operations and every pair of
\* operands for which validate_operands raises nothing, execute raises
\* nothing.
C13_ExecuteAfterValidationNeverRaises ==
    ( /\ last.call = "execute"
      /\ validate_operands(operation_strategy, operands[1], operands[2])
             = "none" )
    => last.exc = "none"

\* exp.execute was called on the operands a and b.
ExpExecuted == last.call = "execute" /\ operation_strategy = "exp"

Half == "Half"
AbstractOperation == "Operation"
Duck == "Duck"
NotAClass == "not a class"
Registrable == {"add", "sub", Half, AbstractOperation, Duck, NotAClass}

\* The identifiers handed to register_operation and create_operation.
Identifiers == {"add", "ADD", "half", "Half", "nope"}

\* str.lower
Lower(identifier) ==
    CASE identifier = "ADD" -> "add"
      [] identifier = "Half" -> "half"
      [] identifier = "EXIT" -> "exit"
      [] identifier = " Idiv " -> " idiv "
      [] identifier = "Cancel" -> "cancel"
      [] identifier = "CANCEL" -> "cancel"
      [] OTHER -> identifier

IsClass(class) == class # NotAClass

\* issubclass(class, Operation)
IsSubclass(class) == class \in OperationNames \cup {Half, AbstractOperation}

\* The class leaves execute, which Operation declares abstract, undefined.
IsAbstract(class) == class = AbstractOperation

\* The class is an Operation with an execute method that can be called.
SatisfiesOperation(class) == IsSubclass(class) /\ ~IsAbstract(class)

\* What register_operation(name, operation_class) raises.
register_outcome(name, operation_class) ==
    IF ~IsClass(operation_class)
    THEN Raises("TypeError", <<"issubclass() arg 1 must be a class">>)
    ELSE IF ~IsSubclass(operation_class)
         THEN Raises("TypeError",
                     <<"Operation class must inherit from Operation">>)
         ELSE Returns(Zero)

\* dict[key] = value
Bound(dict, key, value) ==
    [k \in DOMAIN dict \cup {key} |-> IF k = key THEN value ELSE dict[k]]

\* OperationFactory.register_operation
register_operation(name, operation_class) ==
    LET outcome == register_outcome(name, operation_class)
    IN  /\ last' = [Call("register_operation", outcome.exc, None, Zero, <<>>)
                    EXCEPT !.msg = outcome.msg,
                           !.args = <<name, operation_class>>]
        /\ registry' = IF outcome.exc = "none"
                       THEN Bound(registry, Lower(name), operation_class)
                       ELSE registry
        /\ UNCHANGED <<history, operation_strategy, observers, undo_stack,
                       redo_stack, now, roundTrip, run, history_file,
                       operands, heap, repl>>

\* What create_operation(operation_type) raises, or the class of the
\* instance it returns.
create_outcome(operation_type) ==
    IF Lower(operation_type) \notin DOMAIN registry
    THEN [exc |-> "ValueError", ret |-> None,
          msg |-> <<"Unknown operation: ", operation_type>>]
    ELSE IF IsAbstract(registry[Lower(operation_type)])
         THEN [exc |-> "TypeError", ret |-> None,
               msg |-> <<"Can't instantiate abstract class ",
                         registry[Lower(operation_type)]>>]
         ELSE [exc |-> "none", ret |-> registry[Lower(operation_type)],
               msg |-> <<>>]

\* OperationFactory.create_operation; ret is the class of the new instance.
create_operation(operation_type) ==
    LET outcome == create_outcome(operation_type)
    IN  /\ last' = [Call("create_operation", outcome.exc, outcome.ret, Zero,
                         <<>>)
                    EXCEPT !.msg = outcome.msg, !.args = <<operation_type>>]
        /\ UNCHANGED <<history, operation_strategy, observers, undo_stack,
                       redo_stack, now, roundTrip, run, environment>>

FactoryNext ==
    \/ \E name \in Identifiers, operation_class \in Registrable :
           register_operation(name, operation_class)
    \/ \E operation_type \in Identifiers : create_operation(operation_type)

FactorySpec == Init /\ [][FactoryNext]_vars

\* C14 (as claimed): create_operation looks its identifier up without regard
\* to case and returns an instance of the class registered under it; for an
\* identifier that is not registered it raises ValueError and returns nothing.
C14_CreateInstantiatesRegistered ==
    last.call = "create_operation" =>
        IF Lower(last.args[1]) \in DOMAIN last.pre.registry
        THEN /\ last.exc = "none"
             /\ last.ret = last.pre.registry[Lower(last.args[1])]
        ELSE /\ last.exc = "ValueError"
             /\ last.ret = None

\* C15 (as claimed): register_operation raises TypeError and leaves the
\* registry as it was when the behaviour is no Operation with an execute to
\* call; otherwise it binds the lower-cased identifier to the behaviour, in
\* place of any earlier binding; and create_operation instantiates the behaviour bound last.
C15_RegisterChecksCapability ==
    /\ last.call = "register_operation" =>
           IF SatisfiesOperation(last.args[2])
           THEN /\ last.exc = "none"
                /\ registry = Bound(last.pre.registry, Lower(last.args[1]),
                                    last.args[2])
           ELSE /\ last.exc = "TypeError"
                /\ registry = last.pre.registry
    /\ ( /\ last.call = "create_operation"
         /\ Lower(last.args[1]) \in DOMAIN last.pre.registry )
       => /\ last.exc = "none"
          /\ last.ret = last.pre.registry[Lower(last.args[1])]

(***************************************************************************)
(* The engine and its history file: save_history, load_history and the     *)
(* construction of a new Calculator over the file an earlier one left.     *)
(***************************************************************************)
\* The number of calculations that may be recorded.
MaxStored == 1

\* The second operands of the calculations made: one that a float holds
\* with all its digits, and one with more digits than a float holds.
StoredInputs == {"0.5", "0.125"}

\* A table whose second row holds no number in operand2.
BadTable ==
    Table(<<Row(StoredCalculation),
            [Row(StoredCalculation) EXCEPT !.operand2 = Garbled]>>)

\* The files the first Calculator may find: none, one that is no table, a
\* table of a header only, a table of one row, and the table with a bad row.
FoundFiles == StoredFiles \cup {UnreadableFile, Table(<<>>), BadTable}

\* What the disk does to a save: nothing, a failure before the file is
\* opened, a failure after it was opened for writing.
Faults == {"none", "mkdir", "write"}

\* The record of a call of __init__ that found the file: the exception of
\* load_history that it caught and logged is the cause.
Constructed(file) ==
    [call |-> "__init__", exc |-> "none", ret |-> None, val |-> Zero,
     updates |-> <<>>, msg |-> <<>>,
     cause |-> [exc |-> load_outcome(file, <<>>).exc,
                msg |-> load_outcome(file, <<>>).msg],
     args |-> <<>>, calls |-> <<>>,
     pre |-> [history |-> <<>>, undo_stack |-> <<>>, redo_stack |-> <<>>,
              operation_strategy |-> NoAttribute, registry |-> registry]]

\* Calculator.__init__ with any of the files.
StorageInit ==
    /\ registry = BuiltinOperations
    /\ history_file \in FoundFiles
    /\ history = ConstructedHistory(history_file)
    /\ operands = <<>>
    /\ heap = NoHeap
    /\ repl = NoRepl
    /\ operation_strategy = NoAttribute
    /\ observers = <<>>
    /\ undo_stack = <<>>
    /\ redo_stack = <<>>
    /\ now = 1
    /\ last = Constructed(history_file)
    /\ roundTrip = NoRoundTrip
    /\ run = NoRun

\* (a variant that takes over the stacks of the Calculator before it)
construct_keeping_stacks ==
    /\ history' = ConstructedHistory(history_file)
    /\ operation_strategy' = NoAttribute
    /\ observers' = <<>>
    /\ last' = Constructed(history_file)
    /\ roundTrip' = IF roundTrip.stage = "saved"
                    THEN [roundTrip EXCEPT !.stage = "constructed"]
                    ELSE NoRoundTrip
    /\ run' = NoRun
    /\ UNCHANGED <<undo_stack, redo_stack, now, environment>>

\* Calculator.__init__ of a new Calculator, which takes the place of the
\* one before it, over the file as it is now.
construct ==
    /\ history' = ConstructedHistory(history_file)
    /\ operation_strategy' = NoAttribute
    /\ observers' = <<>>
    /\ undo_stack' = <<>>
    /\ redo_stack' = <<>>
    /\ last' = Constructed(history_file)
    /\ roundTrip' = IF roundTrip.stage = "saved"
                    THEN [roundTrip EXCEPT !.stage = "constructed"]
                    ELSE NoRoundTrip
    /\ run' = NoRun
    /\ UNCHANGED <<now, environment>>

\* Calculator.save_history
save_history(fault) ==
    /\ IF fault = "none"
       THEN /\ history_file' = Table(Rows(history))
            /\ last' = Call("save_history", "none", None, Zero, <<>>)
            /\ roundTrip' = [stage |-> "saved", history |-> history]
       ELSE /\ history_file' = IF fault = "mkdir" THEN history_file
                               ELSE UnreadableFile
            /\ last' = [Call("save_history", "OperationError", None, Zero,
                             <<>>)
                        EXCEPT !.msg = <<"Failed to save history: ", fault>>,
                               !.cause = [exc |-> "OSError",
                                          msg |-> <<fault>>]]
            /\ roundTrip' = NoRoundTrip
    /\ run' = RunContinued
    /\ UNCHANGED <<history, operation_strategy, observers, undo_stack,
                   redo_stack, now, registry, operands, heap, repl>>

\* (a variant that empties the stacks)
load_history_clearing_stacks ==
    LET outcome == load_outcome(history_file, history)
    IN  /\ history' = outcome.history
        /\ undo_stack' = <<>>
        /\ redo_stack' = <<>>
        /\ last' = [Call("load_history", outcome.exc, None, Zero, <<>>)
                    EXCEPT !.msg = outcome.msg]
        /\ roundTrip' =
               IF roundTrip.stage = "constructed"
               THEN [roundTrip EXCEPT !.stage = IF outcome.exc = "none"
                                                THEN "reloaded"
                                                ELSE "not reloaded"]
               ELSE NoRoundTrip
        /\ run' = NoRun
        /\ UNCHANGED <<operation_strategy, observers, now, environment>>

\* Calculator.load_history
load_history ==
    LET outcome == load_outcome(history_file, history)
    IN  /\ history' = outcome.history
        /\ last' = [Call("load_history", outcome.exc, None, Zero, <<>>)
                    EXCEPT !.msg = outcome.msg]
        /\ roundTrip' =
               IF roundTrip.stage = "constructed"
               THEN [roundTrip EXCEPT !.stage = IF outcome.exc = "none"
                                                THEN "reloaded"
                                                ELSE "not reloaded"]
               ELSE NoRoundTrip
        /\ run' = NoRun
        /\ UNCHANGED <<operation_strategy, observers, undo_stack, redo_stack,
                       now, environment>>

StorageNext ==
    \/ set_operation("add")
    \/ /\ now <= MaxStored
       /\ \E b \in StoredInputs : perform_operation("2", b)
    \/ clear_history
    \/ undo
    \/ redo
    \/ \E fault \in Faults : save_history(fault)
    \/ load_history
    \/ construct

StorageSpec == StorageInit /\ [][StorageNext]_vars

\* The calculations the rows of the file stand for, in the order of the rows.
StoredHistory ==
    [i \in 1..Len(history_file.rows) |-> from_dict(history_file.rows[i]).calc]

\* C16 (as claimed): a load_history that succeeds on a table, one of a header
\* only included, makes the history exactly the calculations of the rows, in
\* their order; a load_history that fails leaves the history as it was.
C16_LoadReplacesHistory ==
    last.call = "load_history" =>
        /\ (last.exc = "none" /\ history_file.kind = "table")
              => history = StoredHistory
        /\ last.exc # "none" => history = last.pre.history

\* C17 (as claimed): a history saved with save_history and loaded with
\* load_history by a
\* Calculator constructed afterwards over the same file comes back with the
\* same entries in the same order, and that load_history does not fail.
C17_SaveLoadRoundTrip ==
    /\ roundTrip.stage # "not reloaded"
    /\ roundTrip.stage = "reloaded" => history = roundTrip.history

\* C18: a save_history that succeeds leaves a table in the file, of a header
\* only when the history is empty, with one row for each entry of the
\* history, in order, holding the entry's operation, operands, result and
\* timestamp; it changes neither the history nor the undo and redo stacks.
C18_SaveWritesRowsInOrder ==
    (last.call = "save_history" /\ last.exc = "none") =>
        /\ history_file.kind = "table"
        /\ Len(history_file.rows) = Len(history)
        /\ \A i \in 1..Len(history) :
               LET row == history_file.rows[i]
               IN  /\ row.operation = history[i].operation
                   /\ TextValue(row.operand1) = history[i].operand1
                   /\ TextValue(row.operand2) = history[i].operand2
                   /\ TextValue(row.result) = history[i].result
                   /\ FromIso(row.timestamp) = history[i].timestamp
        /\ history = last.pre.history
        /\ undo_stack = last.pre.undo_stack
        /\ redo_stack = last.pre.redo_stack

\* A history of two entries saved while both stacks hold a memento.
C18_Witness ==
    /\ last.call = "save_history"
    /\ last.exc = "none"
    /\ Len(history_file.rows) = 2
    /\ history_file.rows[1].timestamp # history_file.rows[2].timestamp
    /\ undo_stack # <<>>

\* The files that are there and are no well-formed table.
MalformedFiles == {UnreadableFile, BadTable}

\* C19: load_history raises nothing and leaves the history as it is when
\* there is no file; it raises OperationError and leaves the history as it
\* was when the file is malformed; __init__ raises nothing, and with a
\* malformed file the Calculator starts with an empty history.
C19_MissingAndMalformedFiles ==
    /\ last.call = "load_history" =>
           /\ history_file = MissingFile =>
                  last.exc = "none" /\ history = last.pre.history
           /\ history_file \in MalformedFiles =>
                  last.exc = "OperationError" /\ history = last.pre.history
    /\ last.call = "__init__" =>
           /\ last.exc = "none"
           /\ history_file \in MalformedFiles =>
                  last.cause.exc = "OperationError" /\ history = <<>>

\* load_history on the table with the bad row, with a history of one entry.
C19_Witness ==
    /\ last.call = "load_history"
    /\ history_file = BadTable
    /\ last.exc = "OperationError"
    /\ Len(history) = 1
    /\ history[1].timestamp = 1

(***************************************************************************)
(* Further properties of the operations on their own.                      *)
(***************************************************************************)
\* idiv.execute was called on the operands a and b.
IdivExecuted == last.call = "execute" /\ operation_strategy = "idiv"

\* C21 (as claimed): idiv.execute(a, b) returns, for every a and every
\* b # 0, the integer floor(a) // floor(b), for negative operands and for
\* operands that are no integers too.
C21_IdivFloorsOperands ==
    (IdivExecuted /\ operands[2] # Zero) =>
        LET floor_a == operands[1].n \div operands[1].d
            floor_b == operands[2].n \div operands[2].d
        IN  /\ last.exc = "none"
            /\ floor_b # 0
            /\ last.val = [n |-> FloorDiv(floor_a, floor_b), d |-> 1]

\* C22 (as claimed): the execute of each of the ten operations calls the
\* validate_operands of its operation before it computes anything, so that a
\* validate_operands that a subclass overrides is enforced.
C22_ExecuteValidatesFirst ==
    last.call = "execute" =>
        /\ last.calls # <<>>
        /\ last.calls[1] = "validate_operands"

(***************************************************************************)
(* Further properties of the engine.                                       *)
(***************************************************************************)
\* A perform_operation in the ready state that raised.
PerformFailed ==
    /\ last.call = "perform_operation"
    /\ last.pre.operation_strategy \notin {NoAttribute, None}
    /\ last.exc # "none"

\* C29: a perform_operation that fails in the ready state, whether an
\* operand is invalid, the operation rejects the operands or the execution
\* raises and is wrapped in an OperationError, leaves the history, the undo
\* stack, the redo stack and the selected operation as they were.
C29_FailedPerformChangesNothing ==
    PerformFailed =>
        /\ history = last.pre.history
        /\ undo_stack = last.pre.undo_stack
        /\ redo_stack = last.pre.redo_stack
        /\ operation_strategy = last.pre.operation_strategy

\* An execution fault, wrapped, with an entry in the history and a memento
\* on the redo stack.
C29_Witness ==
    /\ PerformFailed
    /\ last.exc = "OperationError"
    /\ last.cause.exc = "ZeroDivisionError"
    /\ history # <<>>
    /\ redo_stack # <<>>

\* C26: after __init__ the undo stack and the redo stack are empty whatever
\* history was loaded from the file, and an undo or a redo that is the first
\* call after __init__ returns False and changes nothing, also when the
\* loaded history has entries.
C26_StacksEmptyAfterConstruction ==
    /\ [](last.call = "__init__" => undo_stack = <<>> /\ redo_stack = <<>>)
    /\ [][(last.call = "__init__" /\ last'.call \in {"undo", "redo"})
            => /\ last'.ret = False
               /\ history' = history
               /\ undo_stack' = <<>>
               /\ redo_stack' = <<>>]_vars

\* An undo that returned False on the entry loaded from the file, before
\* any calculation was made.
C26_Witness ==
    /\ last.call = "undo"
    /\ last.ret = False
    /\ now = 1
    /\ Len(history) = 1
    /\ history[1].timestamp = 0
    /\ undo_stack = <<>>
    /\ redo_stack = <<>>

\* s is the beginning of t.
IsPrefix(s, t) == Len(s) <= Len(t) /\ SubSeq(t, 1, Len(s)) = s

\* The Calculator started with an empty history, and nothing loads one.
StartedEmpty == history_file = MissingFile

\* C27 (as claimed): from an empty engine, after any perform_operation,
\* undo, redo and clear_history, the i-th memento from the bottom of the undo
\* stack, the bottom one being the first, has exactly i entries and is a
\* prefix of the history, the history has as many entries as the undo stack
\* has mementos, and the history is a strict prefix of each memento on the
\* redo stack.
C27_PrefixChainCountedFromOne ==
    StartedEmpty =>
        /\ \A i \in 1..Len(undo_stack) :
               /\ Len(undo_stack[i].history) = i
               /\ IsPrefix(undo_stack[i].history, history)
        /\ Len(history) = Len(undo_stack)
        /\ \A j \in 1..Len(redo_stack) :
               /\ IsPrefix(history, redo_stack[j].history)
               /\ Len(history) < Len(redo_stack[j].history)

\* C27 (amended): as above, but the i-th memento from the bottom of the undo
\* stack has exactly i - 1 entries: the bottom one is empty and the top one
\* lacks the last entry of the history.
C27_PrefixChain ==
    StartedEmpty =>
        /\ \A i \in 1..Len(undo_stack) :
               /\ Len(undo_stack[i].history) = i - 1
               /\ IsPrefix(undo_stack[i].history, history)
        /\ Len(history) = Len(undo_stack)
        /\ \A j \in 1..Len(redo_stack) :
               /\ IsPrefix(history, redo_stack[j].history)
               /\ Len(history) < Len(redo_stack[j].history)

\* Two calculations and an undo: one entry, one memento on each stack.
C27_Witness ==
    /\ StartedEmpty
    /\ last.call = "undo"
    /\ Len(history) = 1
    /\ Len(undo_stack) = 1
    /\ Len(redo_stack) = 1
    /\ Len(redo_stack[1].history) = 2

\* C28: load_history changes the history only: the undo stack, the redo
\* stack and the selected operation are as they were; an undo right after a
\* load_history restores the memento on top of the undo stack in place of the
\* loaded history, and a redo right after it the memento on top of the redo
\* stack, whatever the table holds.
C28_LoadLeavesStacks ==
    /\ [](last.call = "load_history" =>
              /\ undo_stack = last.pre.undo_stack
              /\ redo_stack = last.pre.redo_stack
              /\ operation_strategy = last.pre.operation_strategy)
    /\ [][(last.call = "load_history" /\ last'.call = "undo"
             /\ undo_stack # <<>>)
            => history' = undo_stack[Len(undo_stack)].history]_vars
    /\ [][(last.call = "load_history" /\ last'.call = "redo"
             /\ redo_stack # <<>>)
            => history' = redo_stack[Len(redo_stack)].history]_vars

\* A load_history of a table with rows that left on the redo stack a
\* memento with an entry that is not in the loaded history.
C28_Witness ==
    /\ last.call = "load_history"
    /\ last.exc = "none"
    /\ history_file.rows # <<>>
    /\ history = StoredHistory
    /\ redo_stack # <<>>
    /\ \E i \in 1..Len(redo_stack[1].history) :
           \A j \in 1..Len(history) : redo_stack[1].history[i] # history[j]

(***************************************************************************)
(* The lists of a Calculator as objects.  heap.lists holds the entries of  *)
(* each list object, heap.history is the list that self.history refers to, *)
(* and each memento on heap.undo_stack and heap.redo_stack is the list     *)
(* that its history field refers to.  Calculations are numbered.           *)
(***************************************************************************)
\* The number of list objects that may be created.
MaxLists == 7

\* The calculation that load_history makes of the row of the file.
LoadedEntry == 0

\* (a variant that hands out the list itself)
copy_aliasing(lists, ref) == [lists |-> lists, ref |-> ref]

\* list.copy(): a new list object with the entries of the list at ref.
copy(lists, ref) ==
    [lists |-> Append(lists, lists[ref]), ref |-> Len(lists) + 1]

\* Calculator.__init__: self.history = [], or the list that load_history
\* made of the file.
HeapInit ==
    /\ heap \in {[lists |-> <<h>>, history |-> 1, undo_stack |-> <<>>,
                   redo_stack |-> <<>>, call |-> "__init__"] :
                      h \in {<<>>, <<LoadedEntry>>}}
    /\ registry = BuiltinOperations
    /\ history_file = MissingFile
    /\ history = <<>>
    /\ operands = <<>>
    /\ repl = NoRepl
    /\ operation_strategy = NoAttribute
    /\ observers = <<>>
    /\ undo_stack = <<>>
    /\ redo_stack = <<>>
    /\ now = 1
    /\ last = Call("__init__", "none", None, Zero, <<>>)
    /\ roundTrip = NoRoundTrip
    /\ run = NoRun

\* What the calls below leave alone.
engine == <<history, operation_strategy, observers, undo_stack, redo_stack,
            now, last, roundTrip, run, registry, history_file, operands,
            repl>>

\* Calculator.perform_operation, when nothing raises: the memento gets a
\* copy of the history, the redo stack is cleared and the calculation is
\* appended to the list that self.history refers to.
perform_operation_on_lists ==
    LET copied == copy(heap.lists, heap.history)
        calculation == Len(heap.lists) + 1
    IN  /\ heap' = [lists |-> [copied.lists EXCEPT
                                  ![heap.history] = Append(@, calculation)],
                    history |-> heap.history,
                    undo_stack |-> Append(heap.undo_stack, copied.ref),
                    redo_stack |-> <<>>,
                    call |-> "perform_operation"]
        /\ UNCHANGED engine

\* Calculator.clear_history: the three lists are cleared in place.
clear_history_on_lists ==
    /\ heap' = [lists |-> [heap.lists EXCEPT ![heap.history] = <<>>],
                history |-> heap.history,
                undo_stack |-> <<>>,
                redo_stack |-> <<>>,
                call |-> "clear_history"]
    /\ UNCHANGED engine

\* Calculator.undo: the redo stack gets a memento with a copy of the
\* history, and self.history a copy of the list of the popped memento.
undo_on_lists ==
    /\ IF heap.undo_stack = <<>>
       THEN heap' = [heap EXCEPT !.call = "undo"]
       ELSE LET memento == Top(heap.undo_stack)
                pushed == copy(heap.lists, heap.history)
                restored == copy(pushed.lists, memento)
            IN  heap' = [lists |-> restored.lists,
                         history |-> restored.ref,
                         undo_stack |-> Popped(heap.undo_stack),
                         redo_stack |-> Append(heap.redo_stack, pushed.ref),
                         call |-> "undo"]
    /\ UNCHANGED engine

\* Calculator.redo
redo_on_lists ==
    /\ IF heap.redo_stack = <<>>
       THEN heap' = [heap EXCEPT !.call = "redo"]
       ELSE LET memento == Top(heap.redo_stack)
                pushed == copy(heap.lists, heap.history)
                restored == copy(pushed.lists, memento)
            IN  heap' = [lists |-> restored.lists,
                         history |-> restored.ref,
                         undo_stack |-> Append(heap.undo_stack, pushed.ref),
                         redo_stack |-> Popped(heap.redo_stack),
                         call |-> "redo"]
    /\ UNCHANGED engine

\* Calculator.save_history reads the history and assigns nothing.
save_history_on_lists ==
    /\ heap' = [heap EXCEPT !.call = "save_history"]
    /\ UNCHANGED engine

\* Calculator.load_history of a table with a row: self.history becomes the
\* new list of the list comprehension.
load_history_on_lists ==
    /\ heap' = [heap EXCEPT !.lists = Append(@, <<LoadedEntry>>),
                            !.history = Len(heap.lists) + 1,
                            !.call = "load_history"]
    /\ UNCHANGED engine

HeapNext ==
    \/ Len(heap.lists) + 1 <= MaxLists /\ perform_operation_on_lists
    \/ clear_history_on_lists
    \/ Len(heap.lists) + 2 <= MaxLists /\ undo_on_lists
    \/ Len(heap.lists) + 2 <= MaxLists /\ redo_on_lists
    \/ save_history_on_lists
    \/ Len(heap.lists) + 1 <= MaxLists /\ load_history_on_lists

HeapSpec == HeapInit /\ [][HeapNext]_vars

\* The lists that the mementos on the stacks refer to.
MementoLists == Range(heap.undo_stack) \cup Range(heap.redo_stack)

\* C25: a memento shares its list with nothing: the list of a memento on a
\* stack is not the list of self.history nor the list of another memento, and
\* as long as the memento is on a stack no perform_operation, undo, redo,
\* save_history or load_history changes the entries of its list, an append to
\* a history that was restored from a memento included.
C25_MementosAreSnapshots ==
    /\ [](/\ heap.history \notin MementoLists
          /\ Cardinality(MementoLists)
                 = Len(heap.undo_stack) + Len(heap.redo_stack))
    /\ [][\A ref \in MementoLists : heap'.lists[ref] = heap.lists[ref]]_vars

\* A calculation appended to a history that an undo restored, with two
\* mementos on the undo stack, the upper one with an entry.
C25_Witness ==
    /\ heap.call = "perform_operation"
    /\ Len(heap.undo_stack) = 2
    /\ heap.lists[heap.undo_stack[2]] # <<>>
    /\ LET h == heap.lists[heap.history]
       IN  Len(h) >= 2 /\ h[Len(h)] > h[Len(h) - 1] + 1

(***************************************************************************)
(* Calculator_repl: the loop that reads a command, reads the operands of   *)
(* an arithmetic command and calls the Calculator.  repl.pc is the prompt  *)
(* the loop waits at ("command", "first", "second"), "call" once it has    *)
(* read all that a command needs, "terminated" after its break.  The calls *)
(* of a command are steps of their own, told apart by the last call.       *)
(***************************************************************************)
\* The calculations that may be entered.
MaxEntered == 1

\* The list of line 109.
ArithmeticCommands ==
    {"add", "sub", "mult", "div", "exp", "root", "idiv", "mod", "perc",
     "absv"}

\* The commands that call the Calculator without a prompt for operands.
CalculatorCommands == {"exit", "clear", "undo", "redo", "save", "load"}

\* Ctrl+C and Ctrl+D at a prompt.
Interrupt == "<KeyboardInterrupt>"
EndOfInput == "<EOFError>"

\* What is typed at the command prompt and at the two operand prompts.
CommandLines ==
    CalculatorCommands
        \cup {"add", "div", " Idiv ", "EXIT", "help", "history", "nope",
              Interrupt, EndOfInput}
FirstLines == {"0", "abc", "cancel", "Cancel", Interrupt, EndOfInput}
SecondLines == {"0.5", "0", "CANCEL", Interrupt, EndOfInput}

\* str.strip
Strip(text) ==
    CASE text = " idiv " -> "idiv"
      [] OTHER -> text

\* Color.printColorInput: the line typed, in lower case and stripped.
printColorInput(line) == Strip(Lower(line))

\* (a variant that never takes an operand for a cancellation)
IsCancel_never(text) == FALSE

\* a.lower() == 'cancel'
IsCancel(text) == Lower(text) = "cancel"

\* Calculator_repl up to its loop: a Calculator with its two observers.
ReplInit ==
    /\ registry = BuiltinOperations
    /\ history_file \in StoredFiles
    /\ history = ConstructedHistory(history_file)
    /\ operands = <<>>
    /\ heap = NoHeap
    /\ operation_strategy = NoAttribute
    /\ observers = <<"LoggingObserver", "AutoSaveObserver">>
    /\ undo_stack = <<>>
    /\ redo_stack = <<>>
    /\ now = 1
    /\ last = Call("add_observer", "none", None, Zero, <<>>)
    /\ roundTrip = NoRoundTrip
    /\ run = NoRun
    /\ repl = [NoRepl EXCEPT !.pc = "command",
                             !.output = <<"Calculator started. Type 'help' for commands.">>]

\* The loop is at `command = Color.printColorInput(...)`: at the start, after
\* a continue, or after the last call of the command before.
AtCommandPrompt ==
    \/ repl.pc = "command"
    \/ /\ repl.pc = "call"
       /\ IF repl.command \in ArithmeticCommands
          THEN \/ last.call = "perform_operation"
               \/ last.call = "create_operation" /\ last.exc # "none"
          ELSE repl.command # "exit" /\ last.call # "input"

\* input() at a prompt: the line typed, or the exception of Ctrl+C, Ctrl+D.
Input(line) ==
    [Call("input",
          CASE line = Interrupt -> "KeyboardInterrupt"
            [] line = EndOfInput -> "EOFError"
            [] OTHER -> "none",
          IF line \in {Interrupt, EndOfInput} THEN None
          ELSE printColorInput(line),
          Zero, <<>>)
     EXCEPT !.args = <<line>>]

\* (a variant in which Ctrl+C ends the loop)
Interrupted_breaking(prompt) ==
    [NoRepl EXCEPT !.pc = "terminated", !.prompt = prompt,
                   !.output = <<"\nOperation cancelled">>]

\* except KeyboardInterrupt: the loop continues.
Interrupted(prompt) ==
    [NoRepl EXCEPT !.pc = "command", !.prompt = prompt,
                   !.output = <<"\nOperation cancelled">>]

\* The EOFError of an operand prompt is raised inside the try statement of
\* the arithmetic command, whose `except Exception` reports it; the loop
\* continues.
InputFailed(prompt) ==
    [NoRepl EXCEPT !.pc = "command", !.prompt = prompt,
                   !.output = <<"Unexpected error: ",
                                "EOF when reading a line">>]

\* except EOFError, which the command prompt reaches: the loop breaks.
InputEnded(prompt) ==
    [NoRepl EXCEPT !.pc = "terminated", !.prompt = prompt,
                   !.output = <<"\nInput terminated. Exiting...">>]

\* What the loop prints for a command before it calls or prompts.
CommandOutput(command) ==
    CASE command = "help" -> <<"\nAvailable commands:">>
      [] command = "history" ->
             IF history = <<>> THEN <<"No calculations in history">>
             ELSE <<"\nCalculation History:">>
      [] command \in ArithmeticCommands ->
             <<"\nEnter numbers (or 'cancel' to abort):">>
      [] command \in CalculatorCommands -> <<>>
      [] OTHER -> <<"Unknown command: '", command,
                    "'. Type 'help' for available commands.">>

\* The loop reads a command.  help, history and an unknown command are
\* answered at once; the operands are those of no command yet, and
\* repl.selected keeps the operation that is selected at this point.
read_command(line) ==
    /\ AtCommandPrompt
    /\ last' = Input(line)
    /\ repl' =
           CASE line = Interrupt -> Interrupted("command")
             [] line = EndOfInput -> InputEnded("command")
             [] OTHER ->
                  LET command == printColorInput(line)
                  IN  [pc |-> CASE command \in ArithmeticCommands -> "first"
                                [] command \in CalculatorCommands -> "call"
                                [] OTHER -> "command",
                       prompt |-> "command",
                       command |-> command,
                       a |-> "",
                       b |-> "",
                       selected |-> operation_strategy,
                       output |-> CommandOutput(command)]
    /\ UNCHANGED <<history, operation_strategy, observers, undo_stack,
                   redo_stack, now, roundTrip, run, registry, history_file,
                   operands, heap>>

\* The loop reads the first operand of an arithmetic command.
read_first(line) ==
    /\ repl.pc = "first"
    /\ last' = Input(line)
    /\ repl' =
           CASE line = Interrupt -> Interrupted("first")
             [] line = EndOfInput -> InputFailed("first")
             [] IsCancel(printColorInput(line)) ->
                  [repl EXCEPT !.pc = "command", !.prompt = "first",
                               !.output = <<"Operation cancelled">>]
             [] OTHER ->
                  [repl EXCEPT !.pc = "second", !.prompt = "first",
                               !.a = printColorInput(line)]
    /\ UNCHANGED <<history, operation_strategy, observers, undo_stack,
                   redo_stack, now, roundTrip, run, registry, history_file,
                   operands, heap>>

\* The loop reads the second operand; it reads one that is no cancellation
\* while calculations may still be entered.
read_second(line) ==
    /\ repl.pc = "second"
    /\ (line \notin {Interrupt, EndOfInput}
           /\ ~IsCancel(printColorInput(line))) => now <= MaxEntered
    /\ last' = Input(line)
    /\ repl' =
           CASE line = Interrupt -> Interrupted("second")
             [] line = EndOfInput -> InputFailed("second")
             [] IsCancel(printColorInput(line)) ->
                  [repl EXCEPT !.pc = "command", !.prompt = "second",
                               !.output = <<"Operation cancelled">>]
             [] OTHER ->
                  [repl EXCEPT !.pc = "call", !.prompt = "second",
                               !.b = printColorInput(line)]
    /\ UNCHANGED <<history, operation_strategy, observers, undo_stack,
                   redo_stack, now, roundTrip, run, registry, history_file,
                   operands, heap>>

\* The command read needs no more input and has made no call yet.
Called(command) ==
    repl.pc = "call" /\ repl.command = command /\ last.call = "input"

\* calc.clear_history()
repl_clear == Called("clear") /\ clear_history

\* calc.undo()
repl_undo == Called("undo") /\ undo

\* calc.redo()
repl_redo == Called("redo") /\ redo

\* calc.save_history() of the save command
repl_save == Called("save") /\ \E fault \in Faults : save_history(fault)

\* calc.load_history()
repl_load == Called("load") /\ load_history

\* operation = OperationFactory.create_operation(command)
repl_create ==
    /\ repl.pc = "call"
    /\ repl.command \in ArithmeticCommands
    /\ last.call = "input"
    /\ create_operation(repl.command)

\* (a variant that keeps an operation that is set already)
repl_set_keeping ==
    /\ repl.pc = "call"
    /\ repl.command \in ArithmeticCommands
    /\ last.call = "create_operation"
    /\ last.exc = "none"
    /\ set_operation(IF operation_strategy = NoAttribute THEN last.ret
                     ELSE operation_strategy)

\* calc.set_operation(operation), once create_operation has returned
repl_set ==
    /\ repl.pc = "call"
    /\ repl.command \in ArithmeticCommands
    /\ last.call = "create_operation"
    /\ last.exc = "none"
    /\ set_operation(last.ret)

\* result = calc.perform_operation(a, b), once set_operation has returned
repl_perform ==
    /\ repl.pc = "call"
    /\ repl.command \in ArithmeticCommands
    /\ last.call = "set_operation"
    /\ perform_operation(repl.a, repl.b)

\* calc.save_history() of the exit command
repl_exit_save == Called("exit") /\ \E fault \in Faults : save_history(fault)

\* What the exit command prints after its save_history.
ExitOutput ==
    IF last.exc = "none"
    THEN <<"History saved successfully.", "Goodbye!">>
    ELSE <<"Warning: Could not save history: ">> \o last.msg
             \o <<"Goodbye!">>

\* (a variant that goes back to the prompt when save_history raised)
repl_break_when_saved ==
    /\ repl.pc = "call"
    /\ repl.command = "exit"
    /\ last.call = "save_history"
    /\ repl' = [repl EXCEPT !.pc = IF last.exc = "none" THEN "terminated"
                                   ELSE "command",
                            !.output = ExitOutput]
    /\ UNCHANGED <<history, operation_strategy, observers, undo_stack,
                   redo_stack, now, last, roundTrip, run, registry,
                   history_file, operands, heap>>

\* The rest of the exit command: the message or the warning, then break.
repl_break ==
    /\ repl.pc = "call"
    /\ repl.command = "exit"
    /\ last.call = "save_history"
    /\ repl' = [repl EXCEPT !.pc = "terminated", !.output = ExitOutput]
    /\ UNCHANGED <<history, operation_strategy, observers, undo_stack,
                   redo_stack, now, last, roundTrip, run, registry,
                   history_file, operands, heap>>

\* What the loop has printed for the command since it read it.
Printed ==
    IF repl.pc # "call" \/ last.call = "input" THEN repl.output
    ELSE CASE last.call = "clear_history" -> <<"History cleared">>
           [] last.call = "undo" ->
                  IF last.ret = True THEN <<"Operation undone">>
                  ELSE <<"Nothing to undo">>
           [] last.call = "redo" ->
                  IF last.ret = True THEN <<"Operation redone">>
                  ELSE <<"Nothing to redo">>
           [] last.call = "save_history" /\ repl.command = "save" ->
                  IF last.exc = "none" THEN <<"History saved successfully">>
                  ELSE <<"Error saving history: ">> \o last.msg
           [] last.call = "load_history" ->
                  IF last.exc = "none" THEN <<"History loaded successfully">>
                  ELSE <<"Error loading history: ">> \o last.msg
           [] last.call = "create_operation" /\ last.exc # "none" ->
                  <<"Unexpected error: ">> \o last.msg
           [] last.call = "perform_operation" ->
                  IF last.exc = "none" THEN <<"\nResult: ", last.val>>
                  ELSE <<"Error: ">> \o last.msg
           [] OTHER -> repl.output

ReplNext ==
    \/ \E line \in CommandLines : read_command(line)
    \/ \E line \in FirstLines : read_first(line)
    \/ \E line \in SecondLines : read_second(line)
    \/ repl_clear
    \/ repl_undo
    \/ repl_redo
    \/ repl_save
    \/ repl_load
    \/ repl_create
    \/ repl_set
    \/ repl_perform
    \/ repl_exit_save
    \/ repl_break

ReplSpec == ReplInit /\ [][ReplNext]_vars

\* C23: in the loop, the exit command calls save_history once and then
\* breaks: the step after the command is read is the call of save_history,
\* the step after that call, whether it returned or raised, ends the loop
\* with no further call, and no step follows.  When the call raised, the
\* loop has printed a warning with the message and then its goodbye.
C23_ExitSavesOnceThenBreaks ==
    /\ []((repl.pc = "terminated" /\ repl.command = "exit") =>
             /\ last.call = "save_history"
             /\ repl.output[Len(repl.output)] = "Goodbye!"
             /\ IF last.exc = "none"
                THEN repl.output[1] = "History saved successfully."
                ELSE /\ last.exc = "OperationError"
                     /\ repl.output[1] = "Warning: Could not save history: ")
    /\ [][Called("exit") => (last'.call = "save_history" /\ repl' = repl)]_vars
    /\ [][(repl.pc = "call" /\ repl.command = "exit"
              /\ last.call = "save_history") =>
             /\ repl'.pc = "terminated"
             /\ repl'.command = "exit"
             /\ UNCHANGED <<last, history_file, history, undo_stack,
                            redo_stack>>]_vars
    /\ [][repl.pc # "terminated"]_vars

\* The exit command has ended the loop after a save_history that raised.
C23_Witness ==
    /\ repl.pc = "terminated"
    /\ repl.command = "exit"
    /\ last.call = "save_history"
    /\ last.exc = "OperationError"
    /\ history # <<>>

\* The lines that cancel an arithmetic command.
CancelLines == {"cancel", "Cancel", "CANCEL"}

\* The last step read a cancellation at an operand prompt.
Cancelled ==
    /\ last.call = "input"
    /\ repl.prompt \in {"first", "second"}
    /\ last.args[1] \in CancelLines

\* C24: when cancel, in any letter case, is typed at the first or at the
\* second operand prompt of an arithmetic command, the loop is back at its
\* command prompt, and the history, the two stacks and the selected
\* operation are what they were when the command was read: no step of the
\* loop between the command and the cancellation changes them.
C24_CancelLeavesEngine ==
    /\ [](Cancelled =>
             /\ repl.pc = "command"
             /\ AtCommandPrompt
             /\ repl.output = <<"Operation cancelled">>
             /\ history = last.pre.history
             /\ undo_stack = last.pre.undo_stack
             /\ redo_stack = last.pre.redo_stack
             /\ operation_strategy = last.pre.operation_strategy
             /\ operation_strategy = repl.selected)
    /\ [][repl.pc \in {"first", "second"} =>
             UNCHANGED <<history, undo_stack, redo_stack,
                         operation_strategy>>]_vars

\* A command was cancelled at its second prompt, with a history, a memento
\* and a selected operation that is not the one of the command.
C24_Witness ==
    /\ Cancelled
    /\ repl.prompt = "second"
    /\ last.args[1] = "CANCEL"
    /\ history # <<>>
    /\ undo_stack # <<>> \/ redo_stack # <<>>
    /\ operation_strategy \notin {NoAttribute, repl.command}

\* C30: in the loop, each command of the list of arithmetic commands is a
\* key of the registry whose class can be instantiated; create_operation
\* returns an instance of the class that the command names, set_operation
\* is called only after it has returned and selects that instance, and
\* perform_operation is called only after set_operation, so that it starts
\* with the operation of the command selected, whatever was selected when
\* the command was read, and never without a selected operation.
C30_PerformUsesOperationOfCommand ==
    /\ [](/\ \A command \in ArithmeticCommands :
                 /\ command \in DOMAIN registry
                 /\ create_outcome(command).exc = "none"
                 /\ create_outcome(command).ret = command
          /\ last.call = "create_operation" =>
                 (last.exc = "none" /\ last.ret = repl.command)
          /\ last.call = "set_operation" =>
                 operation_strategy = repl.command
          /\ last.call = "perform_operation" =>
                 /\ last.pre.operation_strategy = repl.command
                 /\ last.args = <<repl.a, repl.b>>
                 /\ last.exc # "AttributeError"
                 /\ last.msg # <<"No Operation Set">>)
    /\ [][last'.call = "set_operation" =>
             \/ last.call = "create_operation" /\ last.exc = "none"
             \/ last' = last]_vars
    /\ [][last'.call = "perform_operation" =>
             \/ last.call = "set_operation"
             \/ last' = last]_vars

\* A calculation was made with the operation of its command while another
\* operation was selected when the command was read.
C30_Witness ==
    /\ last.call = "perform_operation"
    /\ last.exc = "none"
    /\ repl.command = "add"
    /\ repl.selected = "div"
    /\ history # <<>>

\* The loop has ended by the break of the exit command.
EndedByExit ==
    repl.pc = "terminated" /\ repl.command = "exit"
        /\ last.call = "save_history"

\* The loop has ended by the EOFError of its command prompt.
EndedByEndOfInput ==
    repl.pc = "terminated" /\ repl.prompt = "command"
        /\ last.call = "input" /\ last.exc = "EOFError"

\* The first words of the messages that report a failure.
Reports ==
    {"Error: ", "Unexpected error: ", "Error saving history: ",
     "Error loading history: ", "\nOperation cancelled"}

\* C31: once the Calculator is constructed, the loop ends only by the exit
\* command or by the end of input at the command prompt.  After any other
\* command, after an unknown command, after a keyboard interrupt at any
\* prompt and after any exception raised while a command is handled, the
\* failure is printed, the loop is back at its command prompt, and the
\* history and the stacks are what they were before the call that raised.
C31_LoopEndsOnlyOnExitOrEndOfInput ==
    /\ [](repl.pc = "terminated" => (EndedByExit \/ EndedByEndOfInput))
    /\ []((last.exc # "none" /\ repl.pc # "terminated"
             /\ ~(repl.pc = "call" /\ repl.command = "exit")) =>
             /\ AtCommandPrompt
             /\ Printed # <<>>
             /\ Printed[1] \in Reports
             /\ history = last.pre.history
             /\ undo_stack = last.pre.undo_stack
             /\ redo_stack = last.pre.redo_stack)
    /\ []((last.call = "input" /\ last.exc = "none"
             /\ repl.prompt = "command"
             /\ repl.command \notin ArithmeticCommands
                                      \cup CalculatorCommands) =>
             /\ AtCommandPrompt
             /\ repl.command \notin {"help", "history"} =>
                    Printed[1] = "Unknown command: '")
    /\ []((repl.pc = "call" /\ repl.command # "exit"
             /\ last.call \notin {"input", "create_operation",
                                   "set_operation"}) => AtCommandPrompt)
    /\ [][(repl.pc # "terminated" /\ repl'.pc = "terminated") =>
             \/ repl.pc = "call" /\ repl.command = "exit"
                   /\ last.call = "save_history"
             \/ AtCommandPrompt /\ last'.exc = "EOFError"]_vars

\* A calculation of a Calculator with a history raised an OperationError
\* made of a ZeroDivisionError, and the loop is at its command prompt.
C31_Witness ==
    /\ last.call = "perform_operation"
    /\ last.exc = "OperationError"
    /\ last.cause.exc = "ZeroDivisionError"
    /\ AtCommandPrompt
    /\ history # <<>>
====
